---- MODULE Spec2Model ----
(***************************************************************************)
(* The rate-limit plugin of src/src/index.ts as a state machine.           *)
(*                                                                         *)
(* The plugin registers one synchronous hook, ctx.before('command/         *)
(* execute'), which the host runs to completion for every command          *)
(* invocation.  The state is the two maps that apply() creates             *)
(* (commandRecords, rules), the plugin configuration, and the wall clock.  *)
(* Strings are TLA+ strings; a command name is the sequence of its         *)
(* characters so that name.replace(/\./g, ':') is computed character by    *)
(* character.  A JavaScript value that may be undefined is a record        *)
(* [kind |-> "undefined"] or [kind |-> "string", value |-> s]; an object   *)
(* with optional fields (UsageRecord, the session's identifiers) is a      *)
(* function whose domain holds exactly the fields that are set.            *)
(*                                                                         *)
(* Time is in milliseconds as in the source.  The local day is shortened   *)
(* to DayMs and local midnights are the multiples of DayMs (time zone      *)
(* offset 0, no daylight saving); the scenario of SpecScenario runs on the *)
(* real day of MsPerDay.  One run of the hook takes no time: the           *)
(* clock readings it makes (Date.now(), new Date()) are one instant.       *)
(***************************************************************************)
EXTENDS Integers, Sequences, FiniteSets, TLC

VARIABLES
    commandRecords,   \* Map<string, UsageRecord>, line 88
    rules,            \* Map<string, Action>, line 89
    config,           \* the plugin's Config: sendHint, commandRules
    clock,            \* the wall clock in ms (Date.now())
    commandConfig,    \* what session.resolve gives for each command's minInterval,
                      \* maxDayUsage and scope, per session (Computed values)
    pending,          \* invocations the host has dispatched whose hook has not run yet
    calls,            \* number of hook runs so far (bounded by MaxCalls)
    last,             \* the most recent hook run: its inputs, the checkRateLimit
                      \* calls it made and the value it returned
    audit,            \* history per record id: the latest admission that started a
                      \* cooldown, and the admissions counted in the current day window
    twinRecords,      \* the store of a second plugin instance that is fed the same
                      \* invocations at the same times with sendHint negated (or,
                      \* where a specification says so, with other resolved limits)
    dayLength,        \* length of the local day in ms, fixed by the environment
    trace             \* the hook runs so far, in order, in the specifications that
                      \* log them: time, inputs, value returned, store left

vars == <<commandRecords, rules, config, commandConfig, clock, pending, calls, last,
          audit, twinRecords, dayLength, trace>>

----------------------------------------------------------------------------
(* Bounds of the model *)

MaxCalls == 4        \* hook runs per behaviour
TickMs   == 500      \* granularity of the clock
DayMs    == 2000     \* length of the (shortened) local day
MaxTicks == 5        \* clock advances per behaviour
MaxRules == 2        \* entries of config.commandRules
MaxPending == 2      \* invocations in flight at once
MaxScenarioCalls == 8  \* hook runs per behaviour of the scenario

(* Program constants *)

MsPerSec == 1000     \* "/ 1000" and "* 1000", lines 138 and 154
MsPerDay == 86400000 \* from one setHours(24, 0, 0, 0) to the next, line 146

----------------------------------------------------------------------------
(* JavaScript values *)

undefined == [kind |-> "undefined"]
Str(s)    == [kind |-> "string", value |-> s]

\* `${v}` of a value that may be undefined
Template(v) == IF v.kind = "undefined" THEN "undefined" ELSE v.value

\* !v for a string that may be undefined
Falsy(v) == v.kind = "undefined" \/ v.value = ""

\* Math.ceil(a / b) for b > 0
Ceil(a, b) == -((-a) \div b)

\* an object's optional field
Has(obj, f)    == f \in DOMAIN obj
Truthy(obj, f) == Has(obj, f) /\ obj[f] # 0
Put(obj, f, v) == (f :> v) @@ obj
EmptyObject    == <<>>

----------------------------------------------------------------------------
(* The host: sessions, commands, resolved configuration values *)

Scopes == {"platform", "channel", "user"}

\* Session: userId, channelId and platform may each be unavailable.
\* S1 is a message in channel c1, S2 a private message (no channel).
S1 == [userId |-> "u1", channelId |-> "c1", platform |-> "p1"]
S2 == [userId |-> "u2", platform |-> "p1"]
Sessions == {S1, S2}

SessionField(session, f) == IF Has(session, f) THEN Str(session[f]) ELSE undefined

\* Command names, as character sequences: "a" and its subcommand "a.b".
CmdA  == <<"a">>
CmdAB == <<"a", ".", "b">>
NoCommand == <<>>
Commands == {CmdA, CmdAB}

\* cmd.parent
Parent(cmd) == IF cmd = CmdAB THEN CmdA ELSE NoCommand

\* The values session.resolve() may give for one command's configuration.
MinIntervals == {0, 1, 2}
MaxDayUsages == {0, 1, 2}
Resolved == [minInterval : MinIntervals, maxDayUsage : MaxDayUsages, scope : Scopes]

\* Faulty variant: the midnight that began the day of t.
NextMidnightFloor(t) == (t \div dayLength) * dayLength

\* new Date(); setHours(24, 0, 0, 0); getTime(): the next local midnight after t
NextMidnight(t) == ((t \div dayLength) + 1) * dayLength

----------------------------------------------------------------------------
(* Strings *)

RECURSIVE Chars2Str(_)
Chars2Str(cs) == IF cs = <<>> THEN "" ELSE Head(cs) \o Chars2Str(Tail(cs))

\* name.replace(/\./g, ':')
ReplaceDots(cs) == [i \in 1..Len(cs) |-> IF cs[i] = "." THEN ":" ELSE cs[i]]

CooldownHint(remaining) == "too frequent, retry in " \o ToString(remaining) \o " s"
QuotaHint == "daily limit reached, retry tomorrow"

----------------------------------------------------------------------------
(* apply(): the rule table *)

\* config.commandRules: entries for user u1 and for channel c1
RuleEntries ==
    { [type |-> "user", content |-> "u1", action |-> "block"],
      [type |-> "user", content |-> "u1", action |-> "ignore"],
      [type |-> "channel", content |-> "c1", action |-> "block"],
      [type |-> "channel", content |-> "c1", action |-> "ignore"] }

RuleLists == UNION { [1..n -> RuleEntries] : n \in 0..MaxRules }

RuleKey(type, content) == type \o ":" \o content

\* Faulty variant: an entry does not replace an earlier entry with its key.
RECURSIVE BuildRulesKeepFirst(_, _)
BuildRulesKeepFirst(table, list) ==
    IF list = <<>> THEN table
    ELSE IF RuleKey(Head(list).type, Head(list).content) \in DOMAIN table
    THEN BuildRulesKeepFirst(table, Tail(list))
    ELSE BuildRulesKeepFirst(Put(table, RuleKey(Head(list).type, Head(list).content),
                                 Head(list).action),
                             Tail(list))

\* for (const rule of config.commandRules ?? []) rules.set(..., rule.action)
RECURSIVE BuildRules(_, _)
BuildRules(table, list) ==
    IF list = <<>> THEN table
    ELSE BuildRules(Put(table, RuleKey(Head(list).type, Head(list).content), Head(list).action),
                    Tail(list))

----------------------------------------------------------------------------
(* getRecordKey *)

getRecordKey(session, scope) ==
    CASE scope = "user"     -> SessionField(session, "userId")
      [] scope = "channel"  -> SessionField(session, "channelId")
      [] scope = "platform" -> SessionField(session, "platform")
      [] OTHER              -> undefined

RecordId(scope, key, commandName) == scope \o ":" \o key \o ":" \o commandName

(* checkRateLimit, lines 128-158, as a chain of steps, each given what the  *)
(* lines before it computed.  Every step yields the value returned, the     *)
(* store afterwards, and the record id used (undefined when the scope key   *)
(* is unavailable).                                                         *)

Outcome(result, store, recordId) ==
    [result |-> result, store |-> store, recordId |-> recordId]

\* commandRecords.get(recordId) ?? {}
GetRecord(store, recordId) ==
    IF recordId \in DOMAIN store THEN store[recordId] ELSE EmptyObject

\* lines 154-157: start the cooldown, use up one daily use, store the record

\* Faulty variant: a cooldown is started for every minInterval but 0.
SetCooldownNonZero(record, minInterval, now) ==
    IF minInterval # 0
    THEN Put(record, "cooldownExpiresAt", now + minInterval * MsPerSec)
    ELSE record

\* Faulty variant: the interval is added in seconds to a time in milliseconds.
SetCooldownUnscaled(record, minInterval, now) ==
    IF minInterval > 0
    THEN Put(record, "cooldownExpiresAt", now + minInterval)
    ELSE record

SetCooldown(record, minInterval, now) ==
    IF minInterval > 0
    THEN Put(record, "cooldownExpiresAt", now + minInterval * MsPerSec)
    ELSE record

\* Faulty variant: a daily use is counted whatever maxDayUsage is.
DecrementAlways(record, maxDayUsage) ==
    IF Has(record, "dailyUsesLeft")
    THEN Put(record, "dailyUsesLeft", record.dailyUsesLeft - 1)
    ELSE record

\* Faulty variant: the daily use is not counted.
DecrementSkipped(record, maxDayUsage) == record

Decrement(record, maxDayUsage) ==
    IF maxDayUsage > 0 /\ Has(record, "dailyUsesLeft")
    THEN Put(record, "dailyUsesLeft", record.dailyUsesLeft - 1)
    ELSE record

Commit(store, recordId, record, minInterval, maxDayUsage, now) ==
    Outcome(undefined,
            Put(store, recordId,
                Decrement(SetCooldown(record, minInterval, now), maxDayUsage)),
            Str(recordId))

\* lines 144-149: the lazy reset of the day window
\* Faulty variant: a window that has a deadline is never reset.
NeedsResetOnce(record, now) == ~Truthy(record, "dailyResetAt")

\* Faulty variant: the window is also reset at its deadline.
NeedsResetAtDeadline(record, now) ==
    ~Truthy(record, "dailyResetAt") \/ now >= record.dailyResetAt

NeedsReset(record, now) ==
    ~Truthy(record, "dailyResetAt") \/ now > record.dailyResetAt

ResetWindow(record, maxDayUsage, now) ==
    IF maxDayUsage > 0 /\ NeedsReset(record, now)
    THEN Put(Put(record, "dailyResetAt", NextMidnight(now)),
             "dailyUsesLeft", maxDayUsage)
    ELSE record

\* `record` is the stored object itself when the map has one: what lines
\* 147-148 assign reaches the store without line 156.
InPlace(store, recordId, record) ==
    IF recordId \in DOMAIN store THEN [store EXCEPT ![recordId] = record] ELSE store

\* Faulty variant: a record with no use left is let through once more.
CheckQuotaOffByOne(store, recordId, record, minInterval, maxDayUsage, now) ==
    IF maxDayUsage > 0 /\ Has(record, "dailyUsesLeft") /\ record.dailyUsesLeft < 0
    THEN Outcome(Str(QuotaHint), InPlace(store, recordId, record), Str(recordId))
    ELSE Commit(store, recordId, record, minInterval, maxDayUsage, now)

\* line 150, with the record as the reset left it
CheckQuota(store, recordId, record, minInterval, maxDayUsage, now) ==
    IF maxDayUsage > 0 /\ Has(record, "dailyUsesLeft") /\ record.dailyUsesLeft <= 0
    THEN Outcome(Str(QuotaHint), InPlace(store, recordId, record), Str(recordId))
    ELSE Commit(store, recordId, record, minInterval, maxDayUsage, now)

\* Faulty variant: the cooldown lets a call through one second early.
CheckCooldownEarly(store, recordId, record, minInterval, maxDayUsage, now) ==
    IF /\ minInterval > 0
       /\ Truthy(record, "cooldownExpiresAt")
       /\ record.cooldownExpiresAt > now + MsPerSec
    THEN Outcome(Str(CooldownHint(Ceil(record.cooldownExpiresAt - now, MsPerSec))),
                 store, Str(recordId))
    ELSE CheckQuota(store, recordId, ResetWindow(record, maxDayUsage, now),
                    minInterval, maxDayUsage, now)

\* Faulty variant: the cooldown is checked whatever minInterval is.
CheckCooldownAlways(store, recordId, record, minInterval, maxDayUsage, now) ==
    IF /\ Truthy(record, "cooldownExpiresAt")
       /\ record.cooldownExpiresAt > now
    THEN Outcome(Str(CooldownHint(Ceil(record.cooldownExpiresAt - now, MsPerSec))),
                 store, Str(recordId))
    ELSE CheckQuota(store, recordId, ResetWindow(record, maxDayUsage, now),
                    minInterval, maxDayUsage, now)

\* lines 137-140
CheckCooldown(store, recordId, record, minInterval, maxDayUsage, now) ==
    IF /\ minInterval > 0
       /\ Truthy(record, "cooldownExpiresAt")
       /\ record.cooldownExpiresAt > now
    THEN Outcome(Str(CooldownHint(Ceil(record.cooldownExpiresAt - now, MsPerSec))),
                 store, Str(recordId))
    ELSE CheckQuota(store, recordId, ResetWindow(record, maxDayUsage, now),
                    minInterval, maxDayUsage, now)

\* lines 132-134
CheckRecord(store, recordId, minInterval, maxDayUsage, now) ==
    CheckCooldown(store, recordId, GetRecord(store, recordId),
                  minInterval, maxDayUsage, now)

\* Faulty variant: an absent key is written into the record id as it stands.
CheckKeyTemplated(store, key, commandName, scope, minInterval, maxDayUsage, now) ==
    CheckRecord(store, RecordId(scope, Template(key), commandName),
                minInterval, maxDayUsage, now)

\* lines 129-132
CheckKey(store, key, commandName, scope, minInterval, maxDayUsage, now) ==
    IF Falsy(key) THEN Outcome(undefined, store, undefined)
    ELSE CheckRecord(store, RecordId(scope, key.value, commandName),
                     minInterval, maxDayUsage, now)

checkRateLimit(store, session, commandName, scope, minInterval, maxDayUsage, now) ==
    CheckKey(store, getRecordKey(session, scope), commandName, scope,
             minInterval, maxDayUsage, now)

----------------------------------------------------------------------------
(* getEffectiveAction, lines 165-169 *)

RulesGet(table, k) == IF k \in DOMAIN table THEN Str(table[k]) ELSE undefined

\* a ?? b
Coalesce(a, b) == IF a.kind # "undefined" THEN a ELSE b

\* Faulty variant: the channel's entry is looked up before the user's.
getEffectiveActionChannelFirst(table, session) ==
    Coalesce(RulesGet(table, "channel:" \o Template(SessionField(session, "channelId"))),
             Coalesce(RulesGet(table, "user:" \o
                                      Template(SessionField(session, "userId"))),
                      Str("limit"))).value

getEffectiveAction(table, session) ==
    Coalesce(RulesGet(table, "user:" \o Template(SessionField(session, "userId"))),
             Coalesce(RulesGet(table, "channel:" \o
                                      Template(SessionField(session, "channelId"))),
                      Str("limit"))).value

----------------------------------------------------------------------------
(* The command-chain walk of the hook, lines 182-193.  resolved[cmd] holds  *)
(* what session.resolve gives for cmd's minInterval, maxDayUsage and scope. *)
(* checked lists the checkRateLimit calls made so far; a walk yields the    *)
(* value the hook returns, the store afterwards and that list.              *)

Walked(result, store, checked) ==
    [result |-> result, store |-> store, checked |-> checked]

Checked(cmd, limit, r) ==
    [cmd |-> cmd, scope |-> limit.scope, minInterval |-> limit.minInterval,
     maxDayUsage |-> limit.maxDayUsage, recordId |-> r.recordId, result |-> r.result]

\* cmd.name.replace(/\./g, ':')
RecordName(cmd) == Chars2Str(ReplaceDots(cmd))

RECURSIVE Walk(_, _, _, _, _, _, _)

\* Faulty variant: the walk ends at the first level evaluated, admitted or not.
WalkResultFirstMatch(r, session, cmd, resolved, now, sendHint, checked) ==
    IF ~Falsy(r.result)
    THEN Walked(IF sendHint THEN r.result ELSE Str(""), r.store, checked)
    ELSE Walked(undefined, r.store, checked)

\* Faulty variant: after a denial the ancestors are still evaluated, and the
\* denial is returned.
WalkResultConsultsParent(r, session, cmd, resolved, now, sendHint, checked) ==
    IF ~Falsy(r.result)
    THEN Walked(IF sendHint THEN r.result ELSE Str(""),
                Walk(r.store, session, Parent(cmd), resolved, now, sendHint, checked).store,
                checked)
    ELSE Walk(r.store, session, Parent(cmd), resolved, now, sendHint, checked)

\* Faulty variant: a denial ends the walk only when the hint is to be sent.
WalkResultHintOnly(r, session, cmd, resolved, now, sendHint, checked) ==
    IF ~Falsy(r.result) /\ sendHint
    THEN Walked(r.result, r.store, checked)
    ELSE Walk(r.store, session, Parent(cmd), resolved, now, sendHint, checked)

\* lines 191-192, with r what checkRateLimit gave at this level
WalkResult(r, session, cmd, resolved, now, sendHint, checked) ==
    IF ~Falsy(r.result)
    THEN Walked(IF sendHint THEN r.result ELSE Str(""), r.store, checked)
    ELSE Walk(r.store, session, Parent(cmd), resolved, now, sendHint, checked)

\* lines 183-189, with limit what session.resolve gave for cmd
WalkLevel(store, session, cmd, limit, resolved, now, sendHint, checked, r) ==
    IF limit.minInterval = 0 /\ limit.maxDayUsage = 0
    THEN Walk(store, session, Parent(cmd), resolved, now, sendHint, checked)
    ELSE WalkResult(r, session, cmd, resolved, now, sendHint,
                    Append(checked, Checked(cmd, limit, r)))

WalkCheck(store, session, cmd, limit, resolved, now, sendHint, checked) ==
    WalkLevel(store, session, cmd, limit, resolved, now, sendHint, checked,
              checkRateLimit(store, session, RecordName(cmd), limit.scope,
                             limit.minInterval, limit.maxDayUsage, now))

Walk(store, session, cmd, resolved, now, sendHint, checked) ==
    IF cmd = NoCommand
    THEN Walked(undefined, store, checked)
    ELSE WalkCheck(store, session, cmd, resolved[cmd], resolved, now, sendHint, checked)

(* The hook, lines 172-194 *)
Hooked(action, w) ==
    [action |-> action, result |-> w.result, store |-> w.store, checked |-> w.checked]

\* Faulty variant: 'ignore' is not tested and the walk runs.
HookActionNoIgnore(action, store, sendHint, session, command, resolved, now) ==
    IF action = "block" THEN Hooked(action, Walked(Str(""), store, <<>>))
    ELSE Hooked(action, Walk(store, session, command, resolved, now, sendHint, <<>>))

\* Faulty variant: 'block' returns the walk's answer, hint included.
HookActionBlockWalks(action, store, sendHint, session, command, resolved, now) ==
    IF action = "ignore" THEN Hooked(action, Walked(undefined, store, <<>>))
    ELSE Hooked(action, Walk(store, session, command, resolved, now, sendHint, <<>>))

HookAction(action, store, sendHint, session, command, resolved, now) ==
    IF action = "ignore" THEN Hooked(action, Walked(undefined, store, <<>>))
    ELSE IF action = "block" THEN Hooked(action, Walked(Str(""), store, <<>>))
    ELSE Hooked(action, Walk(store, session, command, resolved, now, sendHint, <<>>))

Hook(store, table, sendHint, session, command, resolved, now) ==
    HookAction(getEffectiveAction(table, session), store, sendHint, session, command,
               resolved, now)

----------------------------------------------------------------------------
(* History kept for the properties: not read by the plugin *)

IsCooldownHint(v) == v.kind = "string" /\ v.value # "" /\ v.value # QuotaHint
IsQuotaHint(v)    == v.kind = "string" /\ v.value = QuotaHint
IsAdmitted(v)     == v.kind = "undefined"

NoAudit == [cool |-> <<>>, window |-> <<>>]

AuditOf(a, rid) == IF rid \in DOMAIN a THEN a[rid] ELSE NoAudit

\* the latest admission that started a cooldown
CoolAfter(old, e, now) ==
    IF IsAdmitted(e.result) /\ e.minInterval > 0
    THEN <<[at |-> now, minInterval |-> e.minInterval]>>
    ELSE old

(* A day window is the time during which the record keeps one dailyResetAt. *)
(* Of a window: its deadline, when it was opened, the maxDayUsage it was    *)
(* opened with, whether every later call was evaluated with that same       *)
(* value, how many calls it admitted, and whether the window before it had  *)
(* admitted as many calls as its maxDayUsage.                               *)
Deadline(record) == IF Has(record, "dailyResetAt") THEN record.dailyResetAt ELSE -1

Count(w, e) == IF IsAdmitted(e.result) THEN [w EXCEPT !.admitted = @ + 1] ELSE w

Opened(old, e, deadline, now) ==
    IF old = <<>> \/ old[1].deadline # deadline
    THEN [deadline |-> deadline, openedAt |-> now, k |-> e.maxDayUsage,
          constant |-> TRUE, admitted |-> 0,
          afterExhausted |-> old # <<>> /\ old[1].admitted >= old[1].k]
    ELSE [old[1] EXCEPT !.constant = @ /\ e.maxDayUsage = old[1].k]

WindowAfter(old, e, after, now) ==
    IF IsCooldownHint(e.result) THEN old
    ELSE IF e.maxDayUsage > 0 THEN <<Count(Opened(old, e, Deadline(after), now), e)>>
    ELSE IF old = <<>> THEN <<>>
    ELSE <<[old[1] EXCEPT !.constant = FALSE]>>

AuditEntry(old, e, after, now) ==
    [cool |-> CoolAfter(old.cool, e, now), window |-> WindowAfter(old.window, e, after, now)]

RECURSIVE AuditAfter(_, _, _, _)

AuditRecord(a, e, rid, checked, store, now) ==
    AuditAfter(Put(a, rid, AuditEntry(AuditOf(a, rid), e, GetRecord(store, rid), now)),
               checked, store, now)

AuditHead(a, e, checked, store, now) ==
    IF e.recordId.kind = "undefined"
    THEN AuditAfter(a, checked, store, now)
    ELSE AuditRecord(a, e, e.recordId.value, checked, store, now)

\* The history after the checkRateLimit calls `checked`, made at `now`, which
\* left `store`.
AuditAfter(a, checked, store, now) ==
    IF checked = <<>> THEN a
    ELSE AuditHead(a, Head(checked), Tail(checked), store, now)

----------------------------------------------------------------------------
(* The state machine *)

NoRun == [ran |-> FALSE]

\* A configuration whose values do not depend on the session.
Static(cfgA, cfgAB) ==
    [c \in Commands |-> [s \in Sessions |-> IF c = CmdA THEN cfgA ELSE cfgAB]]

Limit(minInterval, maxDayUsage, scope) ==
    [minInterval |-> minInterval, maxDayUsage |-> maxDayUsage, scope |-> scope]

\* apply() has run: both maps are built, the store is empty.
Started(cfg, cmdCfg) ==
    /\ config = cfg
    /\ commandConfig = cmdCfg
    /\ rules = BuildRules(EmptyObject, cfg.commandRules)
    /\ commandRecords = EmptyObject
    /\ twinRecords = EmptyObject
    /\ audit = EmptyObject
    /\ pending = <<>>
    /\ clock = 0
    /\ calls = 0
    /\ last = NoRun
    /\ dayLength = DayMs
    /\ trace = <<>>

\* session.resolve of every command's limits
ResolveAll(session) == [c \in DOMAIN commandConfig |-> commandConfig[c][session]]

\* The hook has returned h (and t in the twin instance).
Returned(session, command, overlapped, h, t) ==
    /\ commandRecords' = h.store
    /\ twinRecords' = t.store
    /\ audit' = AuditAfter(audit, h.checked, h.store, clock)
    /\ last' = [ran |-> TRUE, now |-> clock, session |-> session, command |-> command,
                action |-> h.action, checked |-> h.checked,
                result |-> h.result, twinResult |-> t.result,
                overlapped |-> overlapped]

\* The hook runs for one invocation; `overlapped` tells whether another hook
\* ran while this invocation was in flight.
RunHook(session, command, overlapped) ==
    /\ calls < MaxCalls
    /\ Returned(session, command, overlapped,
                Hook(commandRecords, rules, config.sendHint, session, command,
                     ResolveAll(session), clock),
                Hook(twinRecords, rules, ~config.sendHint, session, command,
                     ResolveAll(session), clock))
    /\ calls' = calls + 1
    /\ UNCHANGED <<rules, config, commandConfig, clock, dayLength, trace>>

\* The host dispatches an invocation and runs the hook at once.
Execute(session, command) ==
    /\ pending = <<>>
    /\ RunHook(session, command, FALSE)
    /\ UNCHANGED pending

\* The host receives an invocation; its hook runs later.
Dispatch(session, command) ==
    /\ Len(pending) < MaxPending
    /\ calls + Len(pending) < MaxCalls
    /\ pending' = Append(pending, [session |-> session, command |-> command,
                                   overlapped |-> FALSE])
    /\ UNCHANGED <<commandRecords, rules, config, commandConfig, clock, calls, last,
                   audit, twinRecords, dayLength, trace>>

\* The hook of one of the invocations in flight runs, in any order.
Run(i) ==
    /\ i \in 1..Len(pending)
    /\ RunHook(pending[i].session, pending[i].command, pending[i].overlapped)
    /\ pending' = [j \in 1..(Len(pending) - 1) |->
                      [pending[IF j < i THEN j ELSE j + 1] EXCEPT !.overlapped = TRUE]]

\* Time passes.
Tick ==
    /\ clock < MaxTicks * TickMs
    /\ clock' = clock + TickMs
    /\ UNCHANGED <<commandRecords, rules, config, commandConfig, pending, calls, last,
                   audit, twinRecords, dayLength, trace>>

Invoke == \E session \in Sessions, command \in Commands : Execute(session, command)

Receive == \E session \in Sessions, command \in Commands : Dispatch(session, command)

Serve == \E i \in 1..MaxPending : Run(i)

\* The resolved limits with every negative minInterval and maxDayUsage
\* replaced by 0.
AtLeastZero(n) == IF n < 0 THEN 0 ELSE n

Clamped(resolved) ==
    [c \in DOMAIN resolved |->
        [resolved[c] EXCEPT !.minInterval = AtLeastZero(@),
                            !.maxDayUsage = AtLeastZero(@)]]

\* The host dispatches an invocation and runs the hook at once; the twin
\* instance differs by resolving the clamped limits (and has the same sendHint).
ExecuteClamped(session, command) ==
    /\ calls < MaxCalls
    /\ Returned(session, command, FALSE,
                Hook(commandRecords, rules, config.sendHint, session, command,
                     ResolveAll(session), clock),
                Hook(twinRecords, rules, config.sendHint, session, command,
                     Clamped(ResolveAll(session)), clock))
    /\ calls' = calls + 1
    /\ UNCHANGED <<rules, config, commandConfig, clock, pending, dayLength, trace>>

InvokeClamped ==
    \E session \in Sessions, command \in Commands : ExecuteClamped(session, command)

\* The run that returned h is appended to the log.
Logged(session, command, h) ==
    trace' = Append(trace, [at |-> clock, session |-> session, command |-> command,
                            result |-> h.result, checked |-> h.checked,
                            store |-> h.store])

\* The host dispatches an invocation and runs the hook at once; the run is
\* logged, and at most `bound` runs are.
ExecuteLogged(session, command, bound) ==
    /\ Len(trace) < bound
    /\ Returned(session, command, FALSE,
                Hook(commandRecords, rules, config.sendHint, session, command,
                     ResolveAll(session), clock),
                Hook(twinRecords, rules, ~config.sendHint, session, command,
                     ResolveAll(session), clock))
    /\ Logged(session, command,
              Hook(commandRecords, rules, config.sendHint, session, command,
                   ResolveAll(session), clock))
    /\ calls' = calls + 1
    /\ UNCHANGED <<rules, config, commandConfig, clock, pending, dayLength>>

(* An identity that keeps calling: it invokes a command whenever no        *)
(* invocation is in flight, and the host runs the hook for it.  The runs   *)
(* are not counted.                                                        *)
Ask(session, command) ==
    /\ pending = <<>>
    /\ pending' = <<[session |-> session, command |-> command, overlapped |-> FALSE]>>
    /\ UNCHANGED <<commandRecords, rules, config, commandConfig, clock, calls, last,
                   audit, twinRecords, dayLength, trace>>

Asking(session) == \E command \in Commands : Ask(session, command)

KeepAsking == \E session \in Sessions : Asking(session)

Answer ==
    /\ pending # <<>>
    /\ Returned(pending[1].session, pending[1].command, FALSE,
                Hook(commandRecords, rules, config.sendHint, pending[1].session,
                     pending[1].command, ResolveAll(pending[1].session), clock),
                Hook(twinRecords, rules, ~config.sendHint, pending[1].session,
                     pending[1].command, ResolveAll(pending[1].session), clock))
    /\ pending' = <<>>
    /\ UNCHANGED <<rules, config, commandConfig, clock, calls, dayLength, trace>>

\* What a step of Answer does to pending.  Answer can be taken exactly when
\* an invocation is in flight, and no other step empties pending.
Answered == pending # <<>> /\ pending' = <<>>

(* Identifiers are strings the platform chooses, and may hold a ':'.  S3 is *)
(* a user whose identifier does; b is a top-level command.                  *)
S3   == [userId |-> "u1:a", channelId |-> "c1", platform |-> "p1"]
CmdB == <<"b">>

InvokeLogged ==
    \E session \in {S1, S3}, command \in {CmdAB, CmdB} :
        ExecuteLogged(session, command, MaxCalls)

(* The scenario: user u1 calls one command, here named a, at chosen times   *)
(* of one local day and of the day after.                                   *)
ScenarioStart   == MsPerDay \div 2
ScenarioSeconds == <<0, 10, 61, 62, 130, 200>>

\* The local midnight that ends the day of the scenario.
ScenarioMidnight == ((ScenarioStart \div MsPerDay) + 1) * MsPerDay

\* The instants at which the clock stands in the scenario: the six of the
\* calls, one second before the next local midnight, that midnight, and one
\* second after it.
ScenarioInstants ==
    {ScenarioStart + ScenarioSeconds[k] * MsPerSec : k \in DOMAIN ScenarioSeconds}
        \cup {ScenarioMidnight + d * MsPerSec : d \in {-1, 0, 1}}

Remind == ExecuteLogged(S1, CmdA, MaxScenarioCalls)

\* Time passes, up to one of the later instants.
Advance ==
    /\ \E t \in ScenarioInstants : t > clock /\ clock' = t
    /\ UNCHANGED <<commandRecords, rules, config, commandConfig, pending, calls, last,
                   audit, twinRecords, dayLength, trace>>

----------------------------------------------------------------------------
(* Specifications *)

NoRules  == [sendHint : BOOLEAN, commandRules : {<<>>}]
AnyRules == [sendHint : BOOLEAN, commandRules : RuleLists]

\* A configuration in which the limits of a.b depend on the session.
PerSession(cfgA, cfgAB1, cfgAB2) ==
    [c \in Commands |-> [s \in Sessions |->
        IF c = CmdA THEN cfgA ELSE IF s = S1 THEN cfgAB1 ELSE cfgAB2]]

\* Limits of the subcommand a.b and of its parent a.
ChildLimits ==
    {Limit(mi, mdu, "user") : mi \in MinIntervals, mdu \in MaxDayUsages}
        \cup {Limit(1, 1, "channel")}
ParentLimits == {Limit(0, 0, "channel"), Limit(1, 2, "platform")}

\* Limits of a.b computed from the session, on a record both sessions share.
Computed ==
    { PerSession(Limit(0, 0, "channel"), Limit(2, 1, "platform"), Limit(0, 2, "platform")),
      PerSession(Limit(0, 0, "channel"), Limit(1, 2, "platform"), Limit(1, 0, "platform")) }

(* Spec: no rule entries; every combination of limits on a.b with a parent *)
(* that has no limit or a limit shared by the whole platform, and two      *)
(* configurations computed from the session.                               *)
Init ==
    \E cfg \in NoRules :
        \/ \E a \in ParentLimits, b \in ChildLimits : Started(cfg, Static(a, b))
        \/ \E c \in Computed : Started(cfg, c)

Next == Invoke \/ Tick

Spec == Init /\ [][Next]_vars

(* SpecRules: every rule list, with limits on both levels. *)
InitRules ==
    \E cfg \in AnyRules :
        Started(cfg, Static(Limit(1, 2, "platform"), Limit(2, 1, "user")))

SpecRules == InitRules /\ [][Next]_vars

(* SpecConcurrent: invocations are in flight together and their hooks run *)
(* in any order; a daily quota of 1 per user, or a cooldown and a quota of *)
(* 2 on a record that all sessions of the platform share.                  *)
InitConcurrent ==
    \E c \in { Static(Limit(0, 0, "channel"), Limit(0, 1, "user")),
               Static(Limit(0, 0, "channel"), Limit(1, 2, "platform")) } :
        Started([sendHint |-> TRUE, commandRules |-> <<>>], c)

NextConcurrent == Receive \/ Serve \/ Tick

SpecConcurrent == InitConcurrent /\ [][NextConcurrent]_vars

(* SpecScenario: on the real local day, the command a has scope user,     *)
(* minInterval 60 and maxDayUsage 3; the store is fresh at noon, and user  *)
(* u1 calls a at any of the scenario's instants, any number of times.      *)
InitScenario ==
    /\ config = [sendHint |-> TRUE, commandRules |-> <<>>]
    /\ commandConfig = Static(Limit(60, 3, "user"), Limit(0, 0, "user"))
    /\ rules = BuildRules(EmptyObject, config.commandRules)
    /\ commandRecords = EmptyObject
    /\ twinRecords = EmptyObject
    /\ audit = EmptyObject
    /\ pending = <<>>
    /\ clock = ScenarioStart
    /\ calls = 0
    /\ last = NoRun
    /\ dayLength = MsPerDay
    /\ trace = <<>>

NextScenario == Remind \/ Advance

SpecScenario == InitScenario /\ [][NextScenario]_vars

(* SpecNegative: limits of which at least one is negative on a.b, with a  *)
(* parent that has no limit or a limit shared by the platform, and limits  *)
(* on a shared record that are negative for one session and positive for   *)
(* the other.  The twin instance resolves the clamped limits.              *)
NegativeLimits ==
    {Limit(mi, mdu, "user") : mi \in {-1, 0, 1}, mdu \in {-1, 0, 1}}
        \ {Limit(mi, mdu, "user") : mi \in {0, 1}, mdu \in {0, 1}}

ComputedNegative ==
    { PerSession(Limit(0, 0, "channel"), Limit(1, -1, "platform"), Limit(-1, 1, "platform")),
      PerSession(Limit(-1, -1, "platform"), Limit(-2, 2, "platform"), Limit(2, -2, "platform")) }

InitNegative ==
    \/ \E a \in ParentLimits, b \in NegativeLimits :
          Started([sendHint |-> TRUE, commandRules |-> <<>>], Static(a, b))
    \/ \E c \in ComputedNegative :
          Started([sendHint |-> TRUE, commandRules |-> <<>>], c)

NextNegative == InvokeClamped \/ Tick

SpecNegative == InitNegative /\ [][NextNegative]_vars

(* SpecCollide: users u1 and u1:a, the command a with its subcommand a.b,  *)
(* and the top-level command b; a.b and b have a daily quota of 1 per      *)
(* user and are invoked, a has no limit.  The runs are logged.             *)
InitCollide ==
    /\ config = [sendHint |-> TRUE, commandRules |-> <<>>]
    /\ commandConfig =
          [c \in {CmdA, CmdAB, CmdB} |-> [s \in {S1, S3} |->
              IF c = CmdA THEN Limit(0, 0, "user") ELSE Limit(0, 1, "user")]]
    /\ rules = BuildRules(EmptyObject, config.commandRules)
    /\ commandRecords = EmptyObject
    /\ twinRecords = EmptyObject
    /\ audit = EmptyObject
    /\ pending = <<>>
    /\ clock = 0
    /\ calls = 0
    /\ last = NoRun
    /\ dayLength = DayMs
    /\ trace = <<>>

NextCollide == InvokeLogged \/ Tick

SpecCollide == InitCollide /\ [][NextCollide]_vars

(* SpecLive: the command a has fixed limits, not both zero, per user or    *)
(* for the platform, and a.b has none, so that both commands are limited   *)
(* by the record of a.  The clock keeps advancing up to the horizon of     *)
(* MaxTicks ticks, every identity asks again and again, and the host runs  *)
(* the hook for every invocation it has received.                          *)
FixedLimits ==
    {Limit(mi, mdu, scope) : mi \in MinIntervals, mdu \in MaxDayUsages,
                             scope \in {"user", "platform"}}
        \ {Limit(0, 0, scope) : scope \in Scopes}

InitLive ==
    \E a \in FixedLimits :
        Started([sendHint |-> TRUE, commandRules |-> <<>>],
                Static(a, Limit(0, 0, "user")))

NextLive == KeepAsking \/ Answer \/ Tick

Fairness ==
    /\ WF_vars(Tick)
    /\ WF_pending(Answered)
    /\ \A session \in Sessions : SF_vars(Asking(session))

SpecLive == InitLive /\ [][NextLive]_vars /\ Fairness

----------------------------------------------------------------------------
(* Vocabulary of the properties *)

\* This step is a run of the hook.
HookRan == calls' # calls

\* The command chain: cmd, its parent, ... up to the root.
RECURSIVE ChainOf(_)
ChainOf(cmd) == IF cmd = NoCommand THEN <<>> ELSE <<cmd>> \o ChainOf(Parent(cmd))

IsActive(limit) == ~(limit.minInterval = 0 /\ limit.maxDayUsage = 0)

\* The levels of the chain whose resolved limits are not both zero, in order.
ActiveLevels(session, command) ==
    SelectSeq(ChainOf(command), LAMBDA c : IsActive(commandConfig[c][session]))

IsDenial(v) == v.kind = "string"

\* The checkRateLimit calls of a run that found a scope key.
Keyed(run) == {i \in 1..Len(run.checked) : run.checked[i].recordId.kind = "string"}

\* The record ids whose record differs between two stores.
Changed(before, after) ==
    {rid \in DOMAIN before \cup DOMAIN after :
        GetRecord(before, rid) # GetRecord(after, rid) \/ (rid \in DOMAIN before) # (rid \in DOMAIN after)}

\* t is a local midnight.
IsMidnight(t) == t % DayMs = 0

\* The least whole number of seconds that is no shorter than ms milliseconds.
SecondsUp(ms) == CHOOSE n \in 0..(ms + MsPerSec) : n * MsPerSec >= ms /\ (n - 1) * MsPerSec < ms

----------------------------------------------------------------------------
----------------------------------------------------------------------------
(* C2: with maxDayUsage constantly K >= 1, a day window of a record admits  *)
(* exactly its first K calls that get past the cooldown check: such a call  *)
(* is admitted while fewer than K were admitted in the window and denied as *)
(* quota exhausted once K were, so no window admits more than K; and a      *)
(* window ends at a local midnight and lasts no longer than one local day   *)
(* (a call at the very instant of the deadline still belongs to it).        *)
C2_QuotaExact ==
    /\ \A rid \in DOMAIN audit :
          audit[rid].window # <<>> =>
              LET w == audit[rid].window[1] IN
              /\ (w.constant /\ w.k >= 1) => w.admitted <= w.k
              /\ IsMidnight(w.deadline)
              /\ w.deadline - DayMs <= w.openedAt /\ w.openedAt <= w.deadline
    /\ last.ran =>
          \A i \in Keyed(last) :
              LET e == last.checked[i]
                  w == audit[e.recordId.value].window[1]
              IN  (e.maxDayUsage >= 1 /\ ~IsCooldownHint(e.result) /\ w.constant) =>
                      /\ w.openedAt <= last.now /\ last.now <= w.deadline
                      /\ IsAdmitted(e.result) => w.admitted <= w.k
                      /\ ~IsAdmitted(e.result) =>
                            (w.admitted = w.k /\ e.result = Str(QuotaHint))

\* With K = 2, the third call of the window is denied as quota exhausted.
C2_Witness ==
    /\ last.ran
    /\ \E i \in Keyed(last) :
          LET e == last.checked[i]
              w == audit[e.recordId.value].window
          IN  /\ e.maxDayUsage = 2
              /\ IsQuotaHint(e.result)
              /\ w # <<>> /\ w[1].constant /\ w[1].admitted = 2

----------------------------------------------------------------------------
(* C3: after a call to a record was admitted at time t with minInterval     *)
(* N > 0, a call to that record evaluated with a positive minInterval at a  *)
(* time t' with t <= t' < t + N is denied with the remaining time t + N - t' *)
(* rounded up to whole seconds, and a call at t' >= t + N is not denied by  *)
(* the cooldown.                                                            *)
C3_Cooldown ==
    [][HookRan =>
        \A i \in Keyed(last') :
            LET e    == last'.checked[i]
                cool == AuditOf(audit, e.recordId.value).cool
            IN  (e.minInterval > 0 /\ cool # <<>>) =>
                    LET expires == cool[1].at + cool[1].minInterval * MsPerSec IN
                    /\ clock >= cool[1].at
                    /\ clock < expires =>
                          e.result = Str(CooldownHint(SecondsUp(expires - clock)))
                    /\ clock >= expires => ~IsCooldownHint(e.result)
      ]_vars

\* A call immediately after an admission with minInterval 2 is denied with 2 s
\* remaining.
C3_Witness ==
    /\ last.ran
    /\ \E i \in Keyed(last) :
          LET e    == last.checked[i]
              cool == audit[e.recordId.value].cool
          IN  /\ e.minInterval = 2
              /\ e.result = Str(CooldownHint(2))
              /\ cool # <<>> /\ cool[1].at = last.now /\ cool[1].minInterval = 2

----------------------------------------------------------------------------
(* C4: when invocations on one record are in flight together, their hooks   *)
(* run one after the other, each from check to commit: in no order of       *)
(* running are more calls admitted in a day window than its maxDayUsage,    *)
(* and no call is admitted before the cooldown started by an earlier        *)
(* admission has run out.                                                   *)
C4_NoDoubleAdmission ==
    [][HookRan =>
        \A i \in Keyed(last') :
            LET e      == last'.checked[i]
                rid    == e.recordId.value
                cool   == AuditOf(audit, rid).cool
                before == AuditOf(audit, rid).window
                after  == audit'[rid].window
            IN  /\ (IsAdmitted(e.result) /\ e.minInterval > 0 /\ cool # <<>>) =>
                       clock >= cool[1].at + cool[1].minInterval * MsPerSec
                /\ (IsAdmitted(e.result) /\ e.maxDayUsage > 0) =>
                       /\ after[1].admitted <= after[1].k
                       /\ (before # <<>> /\ before[1].deadline = after[1].deadline) =>
                              before[1].admitted < before[1].k
      ]_vars

\* Two invocations were in flight together; the hook of one took the last daily
\* use of the record, and the hook of the other then found the quota exhausted.
C4_Witness ==
    /\ last.ran
    /\ last.overlapped
    /\ \E i \in Keyed(last) :
          LET e == last.checked[i]
              w == audit[e.recordId.value].window
          IN  /\ IsQuotaHint(e.result)
              /\ w # <<>> /\ w[1].admitted = w[1].k /\ w[1].openedAt = last.now

----------------------------------------------------------------------------
(* C5, as stated: a call evaluated with maxDayUsage K > 0 when the record   *)
(* has no reset deadline, or at a time strictly after it, resets the window *)
(* (deadline at the next local midnight after now) and is admitted with     *)
(* K - 1 uses left.                                                         *)
C5_ResetOnFirstCall ==
    [][HookRan =>
        \A i \in Keyed(last') :
            LET e      == last'.checked[i]
                rid    == e.recordId.value
                before == GetRecord(commandRecords, rid)
                after  == GetRecord(commandRecords', rid)
            IN  (/\ e.maxDayUsage > 0
                 /\ (~Has(before, "dailyResetAt") \/ clock > before.dailyResetAt)) =>
                    /\ IsAdmitted(e.result)
                    /\ Has(after, "dailyResetAt")
                    /\ IsMidnight(after.dailyResetAt)
                    /\ clock < after.dailyResetAt
                    /\ after.dailyResetAt <= clock + DayMs
                    /\ after.dailyUsesLeft = e.maxDayUsage - 1
      ]_vars

(* C5, amended: a call evaluated with maxDayUsage K > 0 that the cooldown   *)
(* check does not deny resets the window exactly when the record has no     *)
(* reset deadline or the time is strictly after it: the deadline becomes    *)
(* the next local midnight after now, the call is admitted and K - 1 uses   *)
(* are left, also when the previous window was exhausted.  Such a call at   *)
(* or before the deadline keeps the deadline and never raises the uses      *)
(* left; a call the cooldown check denies changes nothing.                  *)
C5_DailyReset ==
    [][HookRan =>
        \A i \in Keyed(last') :
            LET e      == last'.checked[i]
                rid    == e.recordId.value
                before == GetRecord(commandRecords, rid)
                after  == GetRecord(commandRecords', rid)
            IN  /\ IsCooldownHint(e.result) => after = before
                /\ (e.maxDayUsage > 0 /\ ~IsCooldownHint(e.result)) =>
                    IF ~Has(before, "dailyResetAt") \/ clock > before.dailyResetAt
                    THEN /\ IsAdmitted(e.result)
                         /\ IsMidnight(after.dailyResetAt)
                         /\ clock < after.dailyResetAt
                         /\ after.dailyResetAt <= clock + DayMs
                         /\ after.dailyUsesLeft = e.maxDayUsage - 1
                    ELSE /\ after.dailyResetAt = before.dailyResetAt
                         /\ after.dailyUsesLeft =
                               IF IsAdmitted(e.result) THEN before.dailyUsesLeft - 1
                               ELSE before.dailyUsesLeft
      ]_vars

\* A record whose window was used up is admitted again by its first call after
\* the midnight that ended the window.
C5_Witness ==
    /\ last.ran
    /\ \E i \in Keyed(last) :
          LET e == last.checked[i]
              w == audit[e.recordId.value].window
          IN  /\ IsAdmitted(e.result)
              /\ e.maxDayUsage > 0
              /\ w # <<>> /\ w[1].afterExhausted /\ w[1].openedAt = last.now
              /\ w[1].admitted = 1
              /\ commandRecords[e.recordId.value].dailyUsesLeft = e.maxDayUsage - 1

----------------------------------------------------------------------------
(* C6: a call evaluated with minInterval = 0 is not denied for cooldown and *)
(* leaves cooldownExpiresAt as it was; a call evaluated with maxDayUsage =  *)
(* 0 is not denied for quota and leaves dailyUsesLeft and dailyResetAt as   *)
(* they were; a level with both 0 is not evaluated and no record under its  *)
(* name changes.                                                            *)
SameField(before, after, f) ==
    /\ Has(before, f) <=> Has(after, f)
    /\ Has(before, f) => before[f] = after[f]

C6_DisabledByZero ==
    [][HookRan =>
        /\ \A i \in Keyed(last') :
              LET e      == last'.checked[i]
                  rid    == e.recordId.value
                  before == GetRecord(commandRecords, rid)
                  after  == GetRecord(commandRecords', rid)
              IN  /\ e.minInterval = 0 =>
                        /\ ~IsCooldownHint(e.result)
                        /\ SameField(before, after, "cooldownExpiresAt")
                  /\ e.maxDayUsage = 0 =>
                        /\ ~IsQuotaHint(e.result)
                        /\ SameField(before, after, "dailyUsesLeft")
                        /\ SameField(before, after, "dailyResetAt")
        /\ \A c \in Commands :
              ~IsActive(commandConfig[c][last'.session]) =>
                  /\ \A i \in 1..Len(last'.checked) : last'.checked[i].cmd # c
                  /\ \A scope \in Scopes :
                        LET key == getRecordKey(last'.session, scope) IN
                        key.kind = "string" =>
                            RecordId(scope, key.value, RecordName(c))
                                \notin Changed(commandRecords, commandRecords')
      ]_vars

\* A record that is cooling down is evaluated with minInterval = 0: the call is
\* admitted and the cooldown is left as it was.
C6_Witness ==
    /\ last.ran
    /\ \E i \in Keyed(last) :
          LET e   == last.checked[i]
              rec == commandRecords[e.recordId.value]
          IN  /\ e.minInterval = 0
              /\ IsAdmitted(e.result)
              /\ Has(rec, "cooldownExpiresAt") /\ rec.cooldownExpiresAt > last.now

----------------------------------------------------------------------------
(* C7: the resolved action is the action of the entry for the session's     *)
(* user when the rule list has one, whatever the channel's entry says and   *)
(* wherever the entries stand in the list; otherwise the action of the      *)
(* entry for the session's channel; otherwise 'limit' (no override).        *)
Entries(type, id) ==
    {i \in 1..Len(config.commandRules) :
        /\ id.kind = "string"
        /\ config.commandRules[i].type = type
        /\ config.commandRules[i].content = id.value}

\* The entry that stands last among the entries of a non-empty set.
LastOf(S) == CHOOSE i \in S : \A j \in S : j <= i

ExpectedAction(session) ==
    LET users    == Entries("user", SessionField(session, "userId"))
        channels == Entries("channel", SessionField(session, "channelId"))
    IN  IF users # {} THEN config.commandRules[LastOf(users)].action
        ELSE IF channels # {} THEN config.commandRules[LastOf(channels)].action
        ELSE "limit"

C7_UserOverChannel ==
    /\ \A session \in Sessions : getEffectiveAction(rules, session) = ExpectedAction(session)
    /\ last.ran => last.action = ExpectedAction(last.session)

\* The channel's entry comes first and says block, the user's entry says ignore:
\* the call is treated as ignore.
C7_Witness ==
    /\ last.ran
    /\ config.commandRules = <<[type |-> "channel", content |-> "c1", action |-> "block"],
                               [type |-> "user", content |-> "u1", action |-> "ignore"]>>
    /\ last.session = S1
    /\ last.action = "ignore"

----------------------------------------------------------------------------
(* C8: when the rules resolve to 'ignore' for the session, the hook returns *)
(* no value and leaves the store unchanged, whatever the limits on the      *)
(* command chain and whatever the store holds.                              *)
C8_IgnoreAllows ==
    [][(HookRan /\ ExpectedAction(last'.session) = "ignore") =>
        /\ last'.result = undefined
        /\ last'.checked = <<>>
        /\ commandRecords' = commandRecords
      ]_vars

\* A third call in a row of an ignored user to a command with maxDayUsage 1 and a
\* cooldown is allowed, while the same command is denied to others.
C8_Witness ==
    /\ last.ran
    /\ calls >= 3
    /\ last.action = "ignore"
    /\ last.result = undefined
    /\ last.command = CmdAB
    /\ commandConfig[CmdAB][last.session].maxDayUsage = 1
    /\ commandRecords = EmptyObject

----------------------------------------------------------------------------
(* C9: when the rules resolve to 'block' for the session, the hook returns  *)
(* the empty string, whether sendHint is set or not and whatever the        *)
(* limits, and leaves the store unchanged.                                  *)
C9_BlockSilent ==
    [][(HookRan /\ ExpectedAction(last'.session) = "block") =>
        /\ last'.result = Str("")
        /\ last'.checked = <<>>
        /\ commandRecords' = commandRecords
      ]_vars

\* With sendHint set, a blocked user's first call is denied with the empty string.
C9_Witness ==
    /\ last.ran
    /\ config.sendHint
    /\ last.action = "block"
    /\ last.result = Str("")
    /\ commandRecords = EmptyObject

----------------------------------------------------------------------------
(* C10: sendHint decides only the text of a denial.  When the walk denies,  *)
(* the hook returns the reason given by the denying level if sendHint is    *)
(* set and the empty string otherwise; and an instance fed the same         *)
(* invocations at the same times with sendHint negated allows and denies    *)
(* the same calls and holds the same store.                                 *)
C10_HintOnly ==
    /\ twinRecords = commandRecords
    /\ last.ran =>
          /\ IsDenial(last.result) <=> IsDenial(last.twinResult)
          /\ (IsDenial(last.result) /\ last.action = "limit") =>
                LET reason == last.checked[Len(last.checked)].result IN
                /\ IsDenial(reason) /\ reason.value # ""
                /\ last.result = (IF config.sendHint THEN reason ELSE Str(""))
                /\ last.twinResult = (IF config.sendHint THEN Str("") ELSE reason)

\* Without sendHint the walk's denial is the empty string, where the instance with
\* sendHint returns the reason.
C10_Witness ==
    /\ last.ran
    /\ ~config.sendHint
    /\ last.action = "limit"
    /\ last.result = Str("")
    /\ last.twinResult = Str(QuotaHint)

----------------------------------------------------------------------------
(* C11: the scenario.  With scope user, minInterval 60 and maxDayUsage 3    *)
(* and a fresh store, the calls of u1 at 0, 10, 61, 62, 130 and 200 s, all  *)
(* in one local day, are: admitted (2 uses left, cooldown until 60 s),      *)
(* denied with 50 s of cooldown remaining, admitted (1 use left), denied    *)
(* for cooldown, admitted (0 uses left), denied as quota exhausted.  Every  *)
(* later call before the local midnight is denied, and the first call after *)
(* that midnight is admitted with 3 - 1 uses left and a new deadline.       *)
ScenarioAt(k) == ScenarioStart + ScenarioSeconds[k] * MsPerSec

\* The first k runs are the first k calls of the scenario.
Follows(k) == k <= Len(trace) /\ \A j \in 1..k : trace[j].at = ScenarioAt(j)

ScenarioRecord(j) == trace[j].store[RecordId("user", "u1", RecordName(CmdA))]

C11_Scenario ==
    LET midnight == ScenarioMidnight IN
    /\ ScenarioAt(6) < midnight
    /\ Follows(1) =>
          /\ trace[1].result = undefined
          /\ ScenarioRecord(1).dailyUsesLeft = 2
          /\ ScenarioRecord(1).cooldownExpiresAt = ScenarioStart + 60 * MsPerSec
          /\ ScenarioRecord(1).dailyResetAt = midnight
    /\ Follows(2) =>
          /\ trace[2].result = Str(CooldownHint(50))
          /\ trace[2].store = trace[1].store
    /\ Follows(3) =>
          /\ trace[3].result = undefined
          /\ ScenarioRecord(3).dailyUsesLeft = 1
    /\ Follows(4) =>
          /\ trace[4].result = Str(CooldownHint(59))
          /\ trace[4].store = trace[3].store
    /\ Follows(5) =>
          /\ trace[5].result = undefined
          /\ ScenarioRecord(5).dailyUsesLeft = 0
    /\ Follows(6) =>
          /\ trace[6].result = Str(QuotaHint)
          /\ ScenarioRecord(6).dailyUsesLeft = 0
          /\ \A j \in 7..Len(trace) :
                /\ trace[j].at < midnight => IsDenial(trace[j].result)
                /\ (trace[j].at > midnight /\ \A i \in 7..(j - 1) : trace[i].at <= midnight) =>
                      /\ trace[j].result = undefined
                      /\ ScenarioRecord(j).dailyUsesLeft = 3 - 1
                      /\ ScenarioRecord(j).dailyResetAt = midnight + MsPerDay

\* The six calls were made, then one a second before midnight, which was
\* denied, and one a second after it, which was admitted.
C11_Witness ==
    /\ Follows(6)
    /\ Len(trace) = 8
    /\ trace[7].at = ScenarioMidnight - MsPerSec
    /\ IsQuotaHint(trace[7].result)
    /\ trace[8].at = ScenarioMidnight + MsPerSec
    /\ IsAdmitted(trace[8].result)

----------------------------------------------------------------------------
(* C12: when the minInterval of a command is the constant N > 0, whatever   *)
(* the session, any two admitted calls on one record are at least N seconds *)
(* apart.  The clock never goes back, so it is enough that each admitted    *)
(* call comes at least N seconds after the latest admitted call before it,  *)
(* and becomes the latest itself.                                           *)
C12_MinSpacing ==
    [][/\ clock' >= clock
       /\ HookRan =>
            \A i \in Keyed(last') :
                LET e    == last'.checked[i]
                    rid  == e.recordId.value
                    cool == AuditOf(audit, rid).cool
                IN  (/\ IsAdmitted(e.result)
                     /\ e.minInterval > 0
                     /\ \A s \in Sessions :
                           commandConfig[e.cmd][s].minInterval = e.minInterval) =>
                        /\ cool # <<>> =>
                              /\ cool[1].minInterval = e.minInterval
                              /\ clock - cool[1].at >= e.minInterval * MsPerSec
                        /\ audit'[rid].cool = <<[at |-> clock, minInterval |-> e.minInterval]>>
      ]_vars

\* With minInterval 1, the second call of a window is admitted exactly one
\* second after the first.
C12_Witness ==
    /\ last.ran
    /\ \E i \in Keyed(last) :
          LET e == last.checked[i]
              a == audit[e.recordId.value]
          IN  /\ IsAdmitted(e.result)
              /\ e.minInterval = 1
              /\ \A s \in Sessions : commandConfig[e.cmd][s].minInterval = 1
              /\ a.cool # <<>> /\ a.cool[1].at = last.now
              /\ a.window # <<>> /\ a.window[1].admitted = 2
              /\ a.window[1].openedAt = last.now - 1 * MsPerSec

----------------------------------------------------------------------------
(* C13: when a level with an active limit is evaluated and the session has  *)
(* no identifier for the level's scope, the level uses no record and does   *)
(* not deny; the records that change in the run are records of other        *)
(* levels, which found their key; and the walk goes on with the next active *)
(* level above, the call being allowed when there is none.                  *)
C13_AbsentKey ==
    [][HookRan =>
        LET run    == last'
            levels == ActiveLevels(run.session, run.command)
            n      == Len(run.checked)
        IN  \A i \in 1..n :
                getRecordKey(run.session, run.checked[i].scope) = undefined =>
                    /\ i \notin Keyed(run)
                    /\ ~IsDenial(run.checked[i].result)
                    /\ Changed(commandRecords, commandRecords') \subseteq
                          {run.checked[j].recordId.value : j \in Keyed(run)}
                    /\ \A rid \in DOMAIN commandRecords' :
                          \A scope \in Scopes :
                              rid # RecordId(scope, "undefined", RecordName(run.checked[i].cmd))
                    /\ i < Len(levels) => (n > i /\ run.checked[i + 1].cmd = levels[i + 1])
                    /\ i = Len(levels) => run.result = undefined
      ]_vars

\* A private message, which has no channel, invokes a.b whose limit is per
\* channel: the level is passed over and the parent a is evaluated, and denies.
C13_Witness ==
    /\ last.ran
    /\ last.session = S2
    /\ Len(last.checked) = 2
    /\ last.checked[1].scope = "channel"
    /\ last.checked[1].recordId = undefined
    /\ last.checked[2].cmd = CmdA
    /\ IsDenial(last.checked[2].result)
    /\ DOMAIN commandRecords = {last.checked[2].recordId.value}

----------------------------------------------------------------------------
(* C14: a negative minInterval or maxDayUsage acts as 0.  An instance that  *)
(* resolves the same limits with every negative value replaced by 0, fed    *)
(* the same invocations at the same times, allows and denies the same calls *)
(* and holds the same records (a record that is absent counting as empty).  *)
(* A level evaluated with a negative minInterval is not denied for cooldown *)
(* and leaves the cooldown as it was; a level evaluated with a negative     *)
(* maxDayUsage is not denied for quota and leaves the uses left and the     *)
(* deadline as they were.                                                   *)
C14_NegativeDisabled ==
    [][HookRan =>
        /\ IsDenial(last'.result) <=> IsDenial(last'.twinResult)
        /\ \A rid \in DOMAIN commandRecords' \cup DOMAIN twinRecords' :
              GetRecord(commandRecords', rid) = GetRecord(twinRecords', rid)
        /\ \A i \in Keyed(last') :
              LET e      == last'.checked[i]
                  rid    == e.recordId.value
                  before == GetRecord(commandRecords, rid)
                  after  == GetRecord(commandRecords', rid)
              IN  /\ e.minInterval < 0 =>
                        /\ ~IsCooldownHint(e.result)
                        /\ SameField(before, after, "cooldownExpiresAt")
                  /\ e.maxDayUsage < 0 =>
                        /\ ~IsQuotaHint(e.result)
                        /\ SameField(before, after, "dailyUsesLeft")
                        /\ SameField(before, after, "dailyResetAt")
      ]_vars

\* A record is cooling down; a call evaluated on it with a negative minInterval
\* and a positive maxDayUsage is admitted, and the cooldown stays.
C14_Witness ==
    /\ last.ran
    /\ ~IsDenial(last.result)
    /\ \E i \in Keyed(last) :
          LET e   == last.checked[i]
              rec == commandRecords[e.recordId.value]
          IN  /\ e.minInterval < 0
              /\ e.maxDayUsage > 0
              /\ Has(rec, "cooldownExpiresAt") /\ rec.cooldownExpiresAt > last.now
              /\ Has(rec, "dailyUsesLeft")

----------------------------------------------------------------------------
(* C15: the rule table holds one action for each (type, content) pair that  *)
(* the rule list names and nothing else, the action being that of the last  *)
(* entry of the list with the pair; and no step changes the table.          *)
SamePair(i) ==
    {j \in 1..Len(config.commandRules) :
        /\ config.commandRules[j].type = config.commandRules[i].type
        /\ config.commandRules[j].content = config.commandRules[i].content}

TableIsLastEntries ==
    /\ DOMAIN rules = {RuleKey(config.commandRules[i].type, config.commandRules[i].content) :
                          i \in 1..Len(config.commandRules)}
    /\ \A i \in 1..Len(config.commandRules) :
          rules[RuleKey(config.commandRules[i].type, config.commandRules[i].content)]
              = config.commandRules[LastOf(SamePair(i))].action

C15_LastEntryWins ==
    /\ []TableIsLastEntries
    /\ [][rules' = rules /\ config' = config]_vars

\* The list names user u1 twice, block first and ignore last: the table holds
\* ignore alone, still so after three runs of the hook, and u1 is ignored.
C15_Witness ==
    /\ config.commandRules = <<[type |-> "user", content |-> "u1", action |-> "block"],
                               [type |-> "user", content |-> "u1", action |-> "ignore"]>>
    /\ DOMAIN rules = {"user:u1"}
    /\ rules["user:u1"] = "ignore"
    /\ calls >= 3
    /\ last.session = S1
    /\ last.action = "ignore"

----------------------------------------------------------------------------
(* C16: a run of the hook that denies the call, by a cooldown, an exhausted *)
(* quota or a block rule, leaves the whole store as it was.                 *)
C16_DeniedChangesNothing ==
    [][(HookRan /\ IsDenial(last'.result)) => commandRecords' = commandRecords]_vars

----------------------------------------------------------------------------
(* C17: when a level denies, by cooldown or by exhausted quota, it is the   *)
(* last level evaluated; the hook returns that level's denial (its reason,  *)
(* or the empty string without sendHint); and no ancestor of the level is   *)
(* evaluated or has a record of its name, for any scope and identity,       *)
(* created or changed.                                                      *)
Ancestors(cmd) == {ChainOf(cmd)[k] : k \in 2..Len(ChainOf(cmd))}

RecordsNamed(cmd) ==
    {RecordId(scope, getRecordKey(s, scope).value, RecordName(cmd)) :
        <<s, scope>> \in {x \in Sessions \X Scopes : getRecordKey(x[1], x[2]) # undefined}}

C17_DenialIsFinal ==
    [][HookRan =>
        \A i \in 1..Len(last'.checked) :
            IsDenial(last'.checked[i].result) =>
                /\ i = Len(last'.checked)
                /\ IsCooldownHint(last'.checked[i].result) \/ IsQuotaHint(last'.checked[i].result)
                /\ last'.result = (IF config.sendHint THEN last'.checked[i].result ELSE Str(""))
                /\ \A c \in Ancestors(last'.checked[i].cmd) :
                      /\ \A j \in 1..Len(last'.checked) : last'.checked[j].cmd # c
                      /\ RecordsNamed(c) \cap Changed(commandRecords, commandRecords') = {}
      ]_vars

\* a.b denies for quota; its parent a has an active limit and a record whose
\* cooldown has run out, so that a would have admitted the call: a is not
\* evaluated and its record stays.
C17_Witness ==
    /\ last.ran
    /\ last.command = CmdAB
    /\ Len(last.checked) = 1
    /\ IsQuotaHint(last.checked[1].result)
    /\ IsActive(commandConfig[CmdA][last.session])
    /\ \E rid \in RecordsNamed(CmdA) \cap DOMAIN commandRecords :
          /\ Has(commandRecords[rid], "cooldownExpiresAt")
          /\ commandRecords[rid].cooldownExpiresAt <= last.now
          /\ commandRecords[rid].dailyUsesLeft > 0

----------------------------------------------------------------------------
(* C18: two evaluations whose scope, scope key or command name differ use   *)
(* different record ids; so the record an evaluation reads and writes is    *)
(* never the record of an evaluation of another triple, and the subcommand  *)
(* a.b of one identity never shares a record with a top-level command of    *)
(* any identity.                                                            *)
Evaluations == {x \in (1..Len(trace)) \X (1..2) : x[2] \in Keyed(trace[x[1]])}

Evaluated(x) == trace[x[1]].checked[x[2]]

Triple(x) ==
    <<Evaluated(x).scope, getRecordKey(trace[x[1]].session, Evaluated(x).scope),
      Evaluated(x).cmd>>

C18_NoCollision ==
    \A x \in Evaluations, y \in Evaluations :
        Triple(x) # Triple(y) => Evaluated(x).recordId # Evaluated(y).recordId

----------------------------------------------------------------------------
(* C19: in every reachable state every stored record has dailyUsesLeft set  *)
(* exactly when it has dailyResetAt set; and dailyUsesLeft is never         *)
(* negative and never greater than the maxDayUsage with which the record's  *)
(* current day window was opened, that is, with which its most recent reset *)
(* was made.                                                                *)
C19_StoreInvariant ==
    \A rid \in DOMAIN commandRecords :
        LET rec == commandRecords[rid] IN
        /\ Has(rec, "dailyUsesLeft") <=> Has(rec, "dailyResetAt")
        /\ Has(rec, "dailyUsesLeft") =>
              /\ rec.dailyUsesLeft >= 0
              /\ AuditOf(audit, rid).window # <<>>
              /\ audit[rid].window[1].deadline = rec.dailyResetAt
              /\ audit[rid].window[1].k > 0
              /\ rec.dailyUsesLeft <= audit[rid].window[1].k

\* A record was last reset with maxDayUsage 1 and has no use left; a session
\* for which maxDayUsage resolves to 2 is denied on it.
C19_Witness ==
    /\ last.ran
    /\ \E i \in Keyed(last) :
          LET e == last.checked[i]
              w == audit[e.recordId.value].window
          IN  /\ e.maxDayUsage = 2
              /\ IsQuotaHint(e.result)
              /\ w # <<>> /\ w[1].k = 1
              /\ commandRecords[e.recordId.value].dailyUsesLeft = 0

----------------------------------------------------------------------------
(* C20: no permanent lockout, with fixed limits, a clock that keeps         *)
(* advancing and identities that keep calling.  An evaluation of a record   *)
(* at a time not before its cooldownExpiresAt and strictly after its        *)
(* dailyResetAt (as far as the record has them) is admitted, and so is the  *)
(* first evaluation of a key that has no record.  And a record on which a   *)
(* call was denied is later admitted again, provided the clock can still    *)
(* reach, within the horizon of the model, an instant that is not before    *)
(* the record's cooldownExpiresAt and is after its dailyResetAt.            *)
Evaluates(rid, run) ==
    {i \in Keyed(run) : run.checked[i].recordId.value = rid}

DeniedOn(rid) ==
    last.ran /\ \E i \in Evaluates(rid, last) : IsDenial(last.checked[i].result)

AdmittedOn(rid) ==
    last.ran /\ \E i \in Evaluates(rid, last) : IsAdmitted(last.checked[i].result)

\* At time t the record is neither cooling down nor in a window it has had.
Free(record, t) ==
    /\ Has(record, "cooldownExpiresAt") => t >= record.cooldownExpiresAt
    /\ Has(record, "dailyResetAt") => t > record.dailyResetAt

InHorizon(rid) ==
    \E n \in 0..MaxTicks :
        n * TickMs >= clock /\ Free(GetRecord(commandRecords, rid), n * TickMs)

C20_NoPermanentLockout ==
    /\ [][last' # last =>
            \A i \in Keyed(last') :
                Free(GetRecord(commandRecords, last'.checked[i].recordId.value), clock)
                    => IsAdmitted(last'.checked[i].result)
         ]_vars
    /\ \A rid \in RecordsNamed(CmdA) :
          (DeniedOn(rid) /\ InHorizon(rid)) ~> AdmittedOn(rid)

\* A call is denied because the day's quota is used up and the record is
\* cooling down as well, a day's end and the end of the cooldown being within
\* the horizon.
C20_Witness ==
    \E rid \in RecordsNamed(CmdA) :
        /\ DeniedOn(rid)
        /\ InHorizon(rid)
        /\ Has(commandRecords[rid], "dailyUsesLeft")
        /\ Has(commandRecords[rid], "cooldownExpiresAt")
        /\ commandRecords[rid].dailyUsesLeft = 0
        /\ commandRecords[rid].cooldownExpiresAt > clock
        /\ commandRecords[rid].dailyResetAt >= clock

====
